---- MODULE Spec2Model ----
(***************************************************************************)
(* The pendulum demo of src/main.rs as a state machine.                    *)
(*                                                                         *)
(* Numbers.  The program computes in f64.  Here a real number r is the     *)
(* integer r * Scale (fixed point, four decimals); every product is        *)
(* rounded to the nearest representable value, as an f64 product is, only  *)
(* coarser.  Angles are therefore in units of 1/Scale rad, angular         *)
(* velocities in 1/Scale rad/s.  The integer types of the program (i16,    *)
(* u64) keep their meaning; i16 keeps its width.                           *)
(*                                                                         *)
(* Time.  One wall clock in milliseconds stands for both Instant::now()    *)
(* and the SDL performance counter.  It advances by the environment        *)
(* action Tick, at any point of the loop.                                  *)
(*                                                                         *)
(* SDL calls are taken to succeed (no Err from a drawing call).            *)
(***************************************************************************)
EXTENDS Integers, Sequences, FiniteSets, TLC

\* ------------------------------------------------------------- constants
WIDTH == 600
HEIGHT == 440
BORDER == 10
L == 200
G == 981
CENTER_X == 300
CENTER_Y == 220

\* fixed-point scale of the f64 values
Scale == 10000
\* std::f64::consts::PI, in fixed point
PI == 31416
I16_MIN == -32768
I16_MAX == 32767
\* timer.performance_frequency(): counter ticks per second
PerfFreq == 1000

\* ---------------------------------------------------------------- bounds
\* wall-clock advances offered to the environment (milliseconds)
FrameMs == 900
StallMs == 12000
\* how many times the clock advances in one behaviour
MaxAdvances == 2
\* input events delivered to one drain of the queue
MaxEvents == 2
\* inputs of the arbitrary-state specification
ThetaStep == 2618
ThetaSteps == 14
OmegaStep == 25000
AnyAdvances == 1

\* ------------------------------------------------------------ arithmetic
Abs(a) == IF a < 0 THEN -a ELSE a
Sgn(a) == IF a < 0 THEN -1 ELSE 1

\* f64::round on a quotient: nearest integer, halves away from zero
RoundDiv(a, b) == Sgn(a) * ((2 * Abs(a) + b) \div (2 * b))

\* `as i16` on a quotient: truncation toward zero ...
TruncDiv(a, b) == Sgn(a) * (Abs(a) \div b)

\* ... and saturation at the bounds of i16
ToI16(v) == IF v > I16_MAX THEN I16_MAX ELSE IF v < I16_MIN THEN I16_MIN ELSE v

\* i16 arithmetic: the mathematical result, whether it overflows, and what a
\* build without overflow checks leaves in the variable
Overflows(v) == v > I16_MAX \/ v < I16_MIN
Wrap16(v) == ((v - I16_MIN) % 65536) + I16_MIN

\* f64 product a * b of two fixed-point values, rounded to nearest; computed
\* by parts so that no intermediate exceeds the 32-bit integers of the model checker
Fx(a, b) ==
  LET A == Abs(a)
      B == Abs(b)
      A1 == A \div Scale
      A0 == A % Scale
      B1 == B \div Scale
      B0 == B % Scale
  IN  Sgn(a) * Sgn(b) *
        (A1 * B1 * Scale + A1 * B0 + A0 * B1 + ((2 * A0 * B0 + Scale) \div (2 * Scale)))

\* Duration::as_secs_f64 of a duration in milliseconds
AsSecs(ms) == (ms * Scale) \div 1000

\* sine of an angle in [0, PI/2]: the Taylor polynomial to x^9 in Horner form
SinQuarter(x) ==
  LET u  == Fx(x, x)
      t4 == Scale - RoundDiv(u, 72)
      t3 == Scale - RoundDiv(Fx(u, t4), 42)
      t2 == Scale - RoundDiv(Fx(u, t3), 20)
      t1 == Scale - RoundDiv(Fx(u, t2), 6)
      s  == Fx(x, t1)
  IN  IF s > Scale THEN Scale ELSE s

\* f64::sin: reduction to the first quarter by the symmetries of the sine
Sin(th) ==
  LET r == th % (2 * PI)
      h == PI \div 2
  IN  IF r <= h THEN SinQuarter(r)
      ELSE IF r <= PI THEN SinQuarter(PI - r)
      ELSE IF r <= PI + h THEN -SinQuarter(r - PI)
      ELSE -SinQuarter(2 * PI - r)

\* f64::cos
Cos(th) == Sin(th + PI \div 2)

\* const THETA_0: f64 = -1.0 * PI * 0.65
THETA_0 == Fx(Fx(-Scale, PI), (65 * Scale) \div 100)

\* --------------------------------------------------------------- helpers
\* timer.performance_counter() at wall-clock time t (milliseconds)
Counter(t) == (t * PerfFreq) \div 1000

\* (mutant) the angle taken from the horizontal: cos for sin
MutAccel(th) == Fx(RoundDiv(Fx(-Scale, G * Scale), L), Sin(th + PI \div 2))

\* the acceleration term  -1.0 * G / L * theta.sin()  of line 94
Accel(th) == Fx(RoundDiv(Fx(-Scale, G * Scale), L), Sin(th))

\* (mutant) the factor delta_t left out of line 94
MutStepOmega(th, om, secs) == om + Accel(th)

\* lines 94 and 96: the state after one step of length secs
StepOmega(th, om, secs) == om + Fx(Accel(th), secs)

\* (mutant) explicit Euler: the position advanced with the old velocity
MutStepTheta(th, om, secs) == th + Fx(om, secs)

\* line 96, after line 94
StepTheta(th, om, secs) == th + Fx(StepOmega(th, om, secs), secs)

\* lines 99-100: the bob's offset from the pivot, and its position
BobDX(th) == ToI16(RoundDiv(Sin(th) * L, Scale))
\* (mutant) sin for cos in line 100
MutBobDY(th) == ToI16(RoundDiv(Sin(th) * L, Scale))
BobDY(th) == ToI16(RoundDiv(Cos(th) * L, Scale))
BobX(th) == CENTER_X + BobDX(th)
BobY(th) == CENTER_Y + BobDY(th)

\* lines 111-112: the end of the velocity vector
VelDX(th, om) == ToI16(RoundDiv(RoundDiv(Fx(Cos(th) * L, om), 10), Scale))
VelDY(th, om) == ToI16(RoundDiv(RoundDiv(Fx(Sin(th) * L, om), 10), Scale))

\* line 117: (theta * 180.0 / PI) as i16, and the display angle
ThetaDeg(th) ==
  LET q == Abs(th) \div PI
      r == Abs(th) % PI
  IN  ToI16(Sgn(th) * (q * 180 + TruncDiv(r * 180, PI)))
Angle(th) == 90 - ThetaDeg(th)

\* cmp::min, cmp::max of lines 123-124
Min(a, b) == IF a < b THEN a ELSE b
Max(a, b) == IF a > b THEN a ELSE b

\* format!("{:.3}", v) and format!("{:.2}", PerfFreq / elapsed), as the
\* number of thousandths (hundredths) printed; a division by 0.0 prints inf
Fmt3(v) == RoundDiv(v, Scale \div 1000)
FpsText(el) == IF el = 0 THEN <<"FPS", "inf", 0>>
               ELSE <<"FPS", "num", RoundDiv(PerfFreq * 100, el)>>

\* the input events told apart by the match of lines 78-87
Quit == [type |-> "Quit", keycode |-> "None"]
KeyDownEscape == [type |-> "KeyDown", keycode |-> "Escape"]
Events == { Quit, KeyDownEscape,
            [type |-> "KeyDown", keycode |-> "A"],
            [type |-> "KeyUp", keycode |-> "Escape"] }

\* (mutant) the key matched without its event type
MutIsQuit(e) == e.type = "Quit" \/ e.keycode = "Escape"

\* the pattern of lines 79-83
IsQuit(e) == e.type = "Quit" \/ (e.type = "KeyDown" /\ e.keycode = "Escape")

\* ----------------------------------------------------------------- state
VARIABLES
  pc,        \* the statement of main the program is at
  clock,     \* wall-clock time, ms
  start,     \* let start (line 72)
  now,       \* let mut now (lines 65, 241)
  elapsed,   \* let mut elapsed (lines 70, 245)
  theta,     \* let mut theta (line 63)
  w,         \* let mut w (line 67)
  delta_t,   \* let delta_t (line 93), in fixed-point seconds
  pending,   \* events the pump has collected and poll_iter has not returned
  polled,    \* events the pump has collected in the current drain
  canvas,    \* draw calls issued on the back buffer since the last clear
  display,   \* what the last present put on the screen
  steps,     \* history: the steps of the current iteration, in order
  tInt,      \* history: wall-clock time of the latest integration, -1 if none
  prevInt,   \* history: the same of the iteration before, -1 if none
  lastFrame, \* history: <<start, end>> counter values of the last whole iteration
  budget     \* clock advances left to the environment

vars == <<pc, clock, start, now, elapsed, theta, w, delta_t, pending, polled,
          canvas, display, steps, tInt, prevInt, lastFrame, budget>>

timing == <<clock, budget>>
sim == <<theta, w, delta_t, tInt, prevInt>>
queue == <<pending, polled>>

\* lines 63-70
Init ==
  /\ pc = "start"
  /\ clock = 0
  /\ start = 0
  /\ now = 0
  /\ elapsed = 1
  /\ theta = THETA_0
  /\ w = 0
  /\ delta_t = 0
  /\ pending = <<>>
  /\ polled = 0
  /\ canvas = <<>>
  /\ display = <<>>
  /\ steps = <<>>
  /\ tInt = -1
  /\ prevInt = -1
  /\ lastFrame = <<>>
  /\ budget = MaxAdvances

\* the loop entered with an arbitrary simulation state
ThetaInputs == { k * ThetaStep : k \in -ThetaSteps..ThetaSteps } \cup {PI, -PI + 1}
OmegaInputs == { -OmegaStep, 0, OmegaStep }
InitAny ==
  /\ pc = "start"
  /\ clock = 0
  /\ start = 0
  /\ now = 0
  /\ elapsed = 1
  /\ theta \in ThetaInputs
  /\ w \in OmegaInputs
  /\ delta_t = 0
  /\ pending = <<>>
  /\ polled = 0
  /\ canvas = <<>>
  /\ display = <<>>
  /\ steps = <<>>
  /\ tInt = -1
  /\ prevInt = -1
  /\ lastFrame = <<>>
  /\ budget = AnyAdvances

\* (mutant) the frame drawn before the state is advanced
MutStages == << "arm", "bob", "velocity", "arc", "axis_y", "axis_x",
                "text_w", "text_theta", "text_v", "text_fps", "integrate", "stamp",
                "present", "measure", "start" >>

\* the order of the statements of the loop body after the drain
Stages == << "integrate", "arm", "bob", "velocity", "arc", "axis_y", "axis_x",
             "text_w", "text_theta", "text_v", "text_fps", "stamp", "present",
             "measure", "start" >>
After(p) == Stages[1 + CHOOSE i \in 1..(Len(Stages) - 1) : Stages[i] = p]

\* i16 results vs: on an overflow a build with overflow checks panics, one
\* without wraps
Outcomes(vs) == IF \E v \in vs : Overflows(v) THEN {"panic", "wrap"} ELSE {"ok"}

\* one draw call at stage p, whose i16 operands are vs.  A text overlay is
\* <<"copy", text, side, x, y>>: on the left x is the left edge of the box and
\* y the number of text lines stacked above it under the top border; on the
\* right x and y are the right and the bottom edge of the box
Draw(p, vs, call) ==
  /\ pc = p
  /\ \E o \in Outcomes(vs) :
       IF o = "panic"
         THEN /\ pc' = "aborted"
              /\ UNCHANGED <<canvas, steps>>
         ELSE /\ pc' = After(p)
              /\ canvas' = Append(canvas, call)
              /\ steps' = Append(steps, p)
  /\ UNCHANGED <<timing, start, now, elapsed, sim, queue, display, lastFrame>>

\* --------------------------------------------------------------- actions
\* the wall clock advances
Tick ==
  /\ pc \notin {"terminated", "aborted"}
  /\ budget > 0
  /\ \E d \in {FrameMs, StallMs} : clock' = clock + d
  /\ budget' = budget - 1
  /\ UNCHANGED <<pc, start, now, elapsed, sim, queue, canvas, display, steps, lastFrame>>

\* line 72
StartFrame ==
  /\ pc = "start"
  /\ start' = Counter(clock)
  /\ steps' = <<"start">>
  /\ pc' = "clear"
  /\ UNCHANGED <<timing, now, elapsed, sim, queue, canvas, display, lastFrame>>

\* (mutant) the back buffer not cleared
MutClear ==
  /\ pc = "clear"
  /\ steps' = Append(steps, "clear")
  /\ polled' = 0
  /\ pc' = "drain"
  /\ UNCHANGED <<timing, start, now, elapsed, sim, pending, canvas, display, lastFrame>>

\* lines 73-75
Clear ==
  /\ pc = "clear"
  /\ canvas' = <<>>
  /\ steps' = Append(steps, "clear")
  /\ polled' = 0
  /\ pc' = "drain"
  /\ UNCHANGED <<timing, start, now, elapsed, sim, pending, display, lastFrame>>

\* the event pump, called by poll_iter, collects an input event
PostEvent ==
  /\ pc = "drain"
  /\ polled < MaxEvents
  /\ \E e \in Events : pending' = Append(pending, e)
  /\ polled' = polled + 1
  /\ UNCHANGED <<pc, timing, start, now, elapsed, sim, canvas, display, steps, lastFrame>>

\* lines 77-88: one turn of the for loop
PollEvent ==
  /\ pc = "drain"
  /\ IF pending = <<>>
       THEN /\ pc' = Stages[1]
            /\ steps' = Append(steps, "drain")
            /\ UNCHANGED pending
       ELSE /\ pc' = IF IsQuit(Head(pending)) THEN "terminated" ELSE "drain"
            /\ pending' = Tail(pending)
            /\ UNCHANGED steps
  /\ UNCHANGED <<timing, start, now, elapsed, sim, polled, canvas, display, lastFrame>>

\* lines 93-96
Integrate ==
  /\ pc = "integrate"
  /\ delta_t' = AsSecs(clock - now)
  /\ w' = StepOmega(theta, w, delta_t')
  /\ theta' = StepTheta(theta, w, delta_t')
  /\ prevInt' = tInt
  /\ tInt' = clock
  /\ steps' = Append(steps, "integrate")
  /\ pc' = After("integrate")
  /\ UNCHANGED <<timing, start, now, elapsed, queue, canvas, display, lastFrame>>

\* lines 98-105
DrawArm ==
  Draw("arm", {BobX(theta), BobY(theta)},
       <<"aa_line", CENTER_X, CENTER_Y, Wrap16(BobX(theta)), Wrap16(BobY(theta)), "BLACK">>)

\* lines 106-108
DrawBob ==
  Draw("bob", {},
       <<"aa_circle", Wrap16(BobX(theta)), Wrap16(BobY(theta)), 5, "BLACK">>)

\* lines 110-115
DrawVelocity ==
  LET x == Wrap16(BobX(theta))
      y == Wrap16(BobY(theta))
      vx == x + VelDX(theta, w)
      vy == y - VelDY(theta, w)
  IN  Draw("velocity", {vx, vy},
           <<"aa_line", x, y, Wrap16(vx), Wrap16(vy), "RED">>)

\* lines 117-127
DrawArc ==
  LET angle == Wrap16(Angle(theta))
  IN  Draw("arc", {Angle(theta)},
           <<"filled_pie", CENTER_X, CENTER_Y, 50, Min(angle, 90), Max(angle, 90), "BLUE">>)

\* lines 130-138
DrawAxisY ==
  Draw("axis_y", {CENTER_Y + 100},
       <<"aa_line", CENTER_X, CENTER_Y, CENTER_X, CENTER_Y + 100, "BLUE">>)

\* lines 139-147
DrawAxisX ==
  Draw("axis_x", {CENTER_X + 100},
       <<"aa_line", CENTER_X, CENTER_Y, CENTER_X + 100, CENTER_Y, "BLUE">>)

\* lines 149-156, 192-203
TextOmega == Draw("text_w", {}, <<"copy", <<"omega", "num", Fmt3(w)>>, "left", BORDER, 0>>)

\* lines 158-165, 204-215
TextTheta == Draw("text_theta", {}, <<"copy", <<"theta", "num", Fmt3(theta)>>, "left", BORDER, 1>>)

\* lines 167-174, 216-227
TextSpeed == Draw("text_v", {}, <<"copy", <<"v", "num", Fmt3(RoundDiv(Fx(w, L * Scale), 100))>>, "left", BORDER, 2>>)

\* (mutant) the readout computed from the frame in progress
MutTextFps == Draw("text_fps", {}, <<"copy", FpsText(Counter(clock) - start), "right", WIDTH - BORDER, HEIGHT - BORDER>>)

\* lines 175-190, 228-239
TextFps == Draw("text_fps", {}, <<"copy", FpsText(elapsed), "right", WIDTH - BORDER, HEIGHT - BORDER>>)

\* line 241
Stamp ==
  /\ pc = "stamp"
  /\ now' = clock
  /\ steps' = Append(steps, "stamp")
  /\ pc' = After("stamp")
  /\ UNCHANGED <<timing, start, elapsed, sim, queue, canvas, display, lastFrame>>

\* line 243
Present ==
  /\ pc = "present"
  /\ display' = canvas
  /\ steps' = Append(steps, "present")
  /\ pc' = After("present")
  /\ UNCHANGED <<timing, start, now, elapsed, sim, queue, canvas, lastFrame>>

\* line 245
Measure ==
  /\ pc = "measure"
  /\ elapsed' = Counter(clock) - start
  /\ lastFrame' = <<start, Counter(clock)>>
  /\ pc' = After("measure")
  /\ UNCHANGED <<timing, start, now, sim, queue, canvas, display, steps>>

Next ==
  \/ Tick
  \/ StartFrame
  \/ Clear
  \/ PostEvent
  \/ PollEvent
  \/ Integrate
  \/ DrawArm
  \/ DrawBob
  \/ DrawVelocity
  \/ DrawArc
  \/ DrawAxisY
  \/ DrawAxisX
  \/ TextOmega
  \/ TextTheta
  \/ TextSpeed
  \/ TextFps
  \/ Stamp
  \/ Present
  \/ Measure

\* the loop without input
NextAny ==
  \/ Tick
  \/ StartFrame
  \/ Clear
  \/ PollEvent
  \/ Integrate
  \/ DrawArm
  \/ DrawBob
  \/ DrawVelocity
  \/ DrawArc
  \/ DrawAxisY
  \/ DrawAxisX
  \/ TextOmega
  \/ TextTheta
  \/ TextSpeed
  \/ TextFps
  \/ Stamp
  \/ Present
  \/ Measure

Spec == Init /\ [][Next]_vars
SpecAny == InitAny /\ [][NextAny]_vars

\* ---------------------------------------------------------------- claims
QuitEvents == {Quit, KeyDownEscape}
Drawn(n) == Len(canvas) >= n
Done(p) == \E i \in 1..Len(steps) : steps[i] = p

\* C1: the loop terminates only on polling a Quit or a key-down of Escape;
\* polling any other event leaves the loop running and theta, w, the back
\* buffer and the screen as they were.
C1_QuitOrEscapeOnly ==
  [][ /\ (pc' = "terminated" /\ pc # "terminated")
          => (pc = "drain" /\ pending # <<>> /\ Head(pending) \in QuitEvents)
      /\ (pc = "drain" /\ pending # <<>> /\ pending' = Tail(pending)
            /\ Head(pending) \notin QuitEvents)
          => (pc' = "drain" /\ theta' = theta /\ w' = w
                /\ canvas' = canvas /\ display' = display) ]_vars

\* C1 witness: a drain that collected MaxEvents events, ignored all but the
\* last and terminated on the last, after a frame had been presented.
C1_Witness ==
  pc = "terminated" /\ polled = MaxEvents /\ pending = <<>> /\ display # <<>>

\* C2 as stated: when the loop terminates, the iteration that had started
\* (start timestamp taken, surface cleared) has run through its present.
C2_InFlightFrameCompletes ==
  (pc = "terminated" /\ Done("start") /\ Done("clear")) => Done("present")

\* C2 amended: the loop terminates only in the event drain of an iteration,
\* after that iteration's start timestamp and clear and before its
\* integration, drawing and present: the frame in flight is abandoned on a
\* cleared back buffer, and an iteration past its drain is not terminated
\* before its present.
C2_TerminatesInDrainOnly ==
  pc = "terminated" => (steps = <<"start", "clear">> /\ canvas = <<>>)

\* C2 witness: terminated in a later iteration than the first.
C2_Witness == pc = "terminated" /\ display # <<>> /\ lastFrame # <<>>

\* C3 as stated: from the second frame on, the dt fed to the integrator is
\* the wall-clock time between the previous integration and this one.
C3_DtSpansIntegrationPoints ==
  (prevInt # -1) => (delta_t = AsSecs(tInt - prevInt))

\* C4: an integration step sets w to w + (-G/L) * sin(theta) * dt with the
\* old theta, and theta to theta + w' * dt with the new w and the same
\* dt >= 0.
C4_SemiImplicitEuler ==
  [][ (pc = "integrate" /\ pc' # "integrate")
        => LET dt == delta_t'
           IN  /\ dt >= 0
               /\ dt = AsSecs(clock - now)
               /\ w' = w + Fx(Fx(RoundDiv(-(G * Scale), L), Sin(theta)), dt)
               /\ theta' = theta + Fx(w', dt) ]_vars

\* C4 witness: a step with dt > 0 that changed both w and theta has run.
C4_Witness ==
  pc = "arm" /\ delta_t > 0 /\ w # 0 /\ prevInt # -1

\* C5: from theta = 0 and w = 0 every step leads to theta = 0 and w = 0.
C5_EquilibriumFixedPoint ==
  [][ (theta = 0 /\ w = 0) => (theta' = 0 /\ w' = 0) ]_vars

\* C5 witness: at rest after two integrations, the last with dt > 0.
C5_Witness ==
  theta = 0 /\ w = 0 /\ pc = "arm" /\ delta_t > 0 /\ prevInt # -1

\* C6: an integration step with dt = 0, taken with w = 0 at a theta in
\* (-PI, PI], leaves theta and w unchanged.
C6_ZeroDtIdempotent ==
  [][ (pc = "integrate" /\ pc' # "integrate" /\ delta_t' = 0
         /\ w = 0 /\ theta > -PI /\ theta <= PI)
        => (theta' = theta /\ w' = w) ]_vars

\* C6 witness: two steps with dt = 0 have run at theta = PI and w = 0.
C6_Witness ==
  pc = "arm" /\ delta_t = 0 /\ prevInt # -1 /\ tInt = prevInt /\ w = 0 /\ theta = PI

\* C7: the FPS text of a frame is the counter frequency over the ticks of
\* the iteration before (its start timestamp to its measurement after the
\* present), and over 1 in the first frame.
C7_FpsLagsOneFrame ==
  (pc \in {"stamp", "present", "measure"})
    => /\ Drawn(10)
       /\ canvas[10][1] = "copy"
       /\ canvas[10][2] =
            IF lastFrame = <<>> THEN <<"FPS", "num", PerfFreq * 100>>
            ELSE IF lastFrame[2] = lastFrame[1] THEN <<"FPS", "inf", 0>>
            ELSE <<"FPS", "num", RoundDiv(PerfFreq * 100, lastFrame[2] - lastFrame[1])>>

\* C7 witness: a frame in progress for StallMs shows the FrameMs of the
\* frame before.
C7_Witness ==
  /\ pc = "measure"
  /\ lastFrame # <<>>
  /\ lastFrame[2] - lastFrame[1] = Counter(FrameMs)
  /\ Counter(clock) - start = Counter(StallMs)
  /\ canvas[10][2] = <<"FPS", "num", RoundDiv(PerfFreq * 100, Counter(FrameMs))>>

\* C8: a presented frame was made by clear, drain, one integration, the
\* draw calls arm, bob, velocity vector, arc, two axes, four texts, and one
\* present, in this order, and the screen shows exactly these draw calls.
FrameSteps ==
  << "start", "clear", "drain", "integrate", "arm", "bob", "velocity", "arc",
     "axis_y", "axis_x", "text_w", "text_theta", "text_v", "text_fps",
     "stamp", "present" >>
FrameCalls ==
  << "aa_line", "aa_circle", "aa_line", "filled_pie", "aa_line", "aa_line",
     "copy", "copy", "copy", "copy" >>
C8_FrameOrder ==
  /\ Done("present") =>
       /\ steps = FrameSteps
       /\ display = canvas
       /\ Len(display) = Len(FrameCalls)
       /\ \A i \in 1..Len(FrameCalls) : display[i][1] = FrameCalls[i]
       /\ <<display[1][6], display[3][6]>> = <<"BLACK", "RED">>
       /\ <<display[5][5], display[6][4]>> = <<CENTER_Y + 100, CENTER_X + 100>>
       /\ <<display[7][2][1], display[8][2][1], display[9][2][1], display[10][2][1]>>
            = <<"omega", "theta", "v", "FPS">>
  /\ \A i \in 1..Len(steps) : steps[i] = FrameSteps[i]
  /\ (Done("integrate") /\ ~Done("arm")) => canvas = <<>>

\* C8 witness: the second present has happened.
C8_Witness == pc = "measure" /\ lastFrame # <<>> /\ delta_t > 0

\* C9 as stated: the display angle 90 - theta (degrees) is computed in i16
\* without overflow and without aborting the frame, and the arc is swept from
\* min(angle, 90) to max(angle, 90).
C9_ArcSweep ==
  /\ pc # "aborted"
  /\ (pc = "arc") => ~Overflows(Angle(theta))
  /\ (Drawn(4) /\ Done("arc"))
       => /\ canvas[4][5] = Min(Angle(theta), 90)
          /\ canvas[4][6] = Max(Angle(theta), 90)
          /\ canvas[4][5] <= canvas[4][6]
          /\ 90 \in {canvas[4][5], canvas[4][6]}

\* C10: the bob drawn is within L of the pivot in each coordinate, on the
\* circle of radius L up to the rounding of the two coordinates, inside the
\* window, and within i16.
RoundingSlack == (L * 14143) \div 10000 + 1
C10_BobOnCircle ==
  Drawn(2) =>
    LET x == canvas[2][2]
        y == canvas[2][3]
        dx == x - CENTER_X
        dy == y - CENTER_Y
    IN  /\ canvas[2][1] = "aa_circle"
        /\ Abs(dx) <= L
        /\ Abs(dy) <= L
        /\ Abs(dx * dx + dy * dy - L * L) <= RoundingSlack
        /\ x >= 0 /\ x < WIDTH
        /\ y >= 0 /\ y < HEIGHT
        /\ ~Overflows(x) /\ ~Overflows(y)
        /\ <<canvas[1][4], canvas[1][5]>> = <<x, y>>

\* C10 witness: a bob drawn off the exact circle by rounding, for a theta
\* outside (-PI, PI].
C10_Witness ==
  /\ pc = "velocity"
  /\ theta > PI
  /\ LET dx == canvas[2][2] - CENTER_X
         dy == canvas[2][3] - CENTER_Y
     IN  dx * dx + dy * dy # L * L /\ dx # 0 /\ dy # 0

====
